---- MODULE Spec2Model ----
(***************************************************************************)
(* Model of crates/bevy_editor: the Templater entry store (templater.rs)   *)
(* and the project materializer init_project (lib.rs).                     *)
(*                                                                         *)
(* A file name is a sequence of tokens.  The tokens "/" (separator),       *)
(* ".." (parent directory) and ".tera" (the reserved suffix) carry         *)
(* meaning; every other token is an opaque piece of a file name.           *)
(* A file content is one of four kinds of byte strings, see Contents.      *)
(***************************************************************************)
EXTENDS Integers, Sequences, FiniteSets, TLC

VARIABLES
  template,   \* the Templater: [tera, binaries]
  calls,      \* add_raw_template calls made on template by its user
  last,       \* history: stored name -> kind and content of the latest add
  lastCall,   \* history: the latest call on the Templater API
  loaded,     \* history: the archive template was loaded from, and the result
  pc,         \* init_project: the stage it is at ("idle": not called)
  opts,       \* init_project: the ProjectOpts argument
  dir,        \* the target directory: path relative to it -> file content
  ctx,        \* init_project: the tera::Context
  license,    \* init_project: the resolved licenses
  continuous_integration,  \* init_project: the resolved CI providers
  vcs,        \* init_project: the resolved version control system
  cache,      \* what init_project found in the template cache directory
  source,     \* history: the loader that built template
  writes,     \* history: [stage, path, existed] of every file written
  err         \* the stage init_project failed at, "" if none

storeVars == <<template, calls, last, lastCall, loaded>>
projVars ==
  <<pc, opts, dir, ctx, license, continuous_integration, vcs, cache, source,
    writes, err>>
vars ==
  <<template, calls, last, lastCall, loaded, pc, opts, dir, ctx, license,
    continuous_integration, vcs, cache, source, writes, err>>

\* ------------------------------------------------------------------------
\* Bounds
\* ------------------------------------------------------------------------
\* number of add_raw_template calls made on one Templater
MaxAdds == 3
\* number of entries of a zip archive handed to from_zip
MaxZipLen == 2
\* length of the --license list
MaxLicenses == 2
\* length of the --continuous-integration list
MaxCI == 2

\* ------------------------------------------------------------------------
\* Byte strings
\* ------------------------------------------------------------------------
\* "txt": valid UTF-8 without substitution markers; "tpl": valid UTF-8 with
\* markers; "bad": valid UTF-8 that is not a well-formed tera template;
\* "bin": not valid UTF-8.
Contents == {"txt", "tpl", "bad", "bin"}

\* String::from_utf8(..).is_ok() / read_to_string(..).is_ok()
Utf8(c) == c \in {"txt", "tpl", "bad"}

\* Tera::add_raw_template succeeds iff the text parses as a template
TeraParses(c) == c \in {"txt", "tpl"}

\* what a file holds after raw bytes were written to it
Raw(c) == [data |-> c, name |-> "-", license |-> "-"]

\* Tera::render_to of a text against the context: a text without markers
\* renders to itself, a text with markers takes the context's values
Render(c, context) ==
  IF c = "tpl" THEN [data |-> c, name |-> context.name, license |-> context.license]
  ELSE Raw(c)

\* ------------------------------------------------------------------------
\* Maps
\* ------------------------------------------------------------------------
EmptyMap == [x \in {} |-> "txt"]

Put(m, k, v) == [x \in (DOMAIN m) \cup {k} |-> IF x = k THEN v ELSE m[x]]

\* ------------------------------------------------------------------------
\* Templater (templater.rs)
\* ------------------------------------------------------------------------
\* Templater::default(): an empty Tera and an empty HashMap
Templater == [tera |-> EmptyMap, binaries |-> EmptyMap]

\* position of the first ".tera" in the name, 0 if there is none
FirstTera(name) ==
  IF \E i \in 1..Len(name) : name[i] = ".tera"
  THEN CHOOSE i \in 1..Len(name) :
         name[i] = ".tera" /\ \A j \in 1..(i - 1) : name[j] # ".tera"
  ELSE 0

\* name.split_once(".tera") matches Some((name, "")): the first ".tera" is
\* the end of the name
SplitsAtEnd(name) == FirstTera(name) # 0 /\ FirstTera(name) = Len(name)

\* the key add_raw_template stores the entry under
StoredName(name) ==
  IF SplitsAtEnd(name) THEN SubSeq(name, 1, Len(name) - 1) ELSE name

\* the kind add_raw_template stores the entry as
StoredKind(name, content) ==
  IF SplitsAtEnd(name) /\ Utf8(content) THEN "Text" ELSE "Binary"

\* Templater::add_raw_template: [ok, t]
add_raw_template(t, name, content) ==
  IF SplitsAtEnd(name)
  THEN IF Utf8(content)
       THEN IF TeraParses(content)
            THEN [ok |-> TRUE,
                  t |-> [t EXCEPT !.tera = Put(t.tera, StoredName(name), content)]]
            ELSE [ok |-> FALSE, t |-> t]
       ELSE [ok |-> TRUE,
             t |-> [t EXCEPT !.binaries = Put(t.binaries, StoredName(name), content)]]
  ELSE [ok |-> TRUE, t |-> [t EXCEPT !.binaries = Put(t.binaries, name, content)]]

\* Templater::get_template_names: the tera names chained with the binaries
\* keys; NameCount is how many times the iterator yields n
NameCount(t, n) ==
  (IF n \in DOMAIN t.tera THEN 1 ELSE 0) + (IF n \in DOMAIN t.binaries THEN 1 ELSE 0)

get_template_names(t) == (DOMAIN t.tera) \cup (DOMAIN t.binaries)

\* Templater::render_to: [ok, out]
render_to(t, name, context) ==
  IF name \in DOMAIN t.binaries
  THEN [ok |-> TRUE, out |-> Raw(t.binaries[name])]
  ELSE IF name \in DOMAIN t.tera
       THEN [ok |-> TRUE, out |-> Render(t.tera[name], context)]
       ELSE [ok |-> FALSE, out |-> Raw("txt")]

\* ------------------------------------------------------------------------
\* Paths
\* ------------------------------------------------------------------------
\* position of the first "/" of p at or after i, Len(p) + 1 if there is none
RECURSIVE NextSep(_, _)
NextSep(p, i) ==
  IF i > Len(p) THEN Len(p) + 1
  ELSE IF p[i] = "/" THEN i ELSE NextSep(p, i + 1)

\* Path::components without the root: the runs of tokens between
\* separators; empty runs and "." are skipped
RECURSIVE Components(_)
Components(p) ==
  IF p = <<>> THEN <<>>
  ELSE LET k == NextSep(p, 1)
           head == SubSeq(p, 1, k - 1)
           rest == SubSeq(p, k + 1, Len(p))
       IN IF head = <<>> \/ head = <<".">>
          THEN Components(rest)
          ELSE <<head>> \o Components(rest)

HasRoot(p) == p # <<>> /\ p[1] = "/"

\* the depth walk of ZipFile::enclosed_name: -1 once ".." climbs above the
\* start
RECURSIVE Depth(_, _)
Depth(cs, d) ==
  IF cs = <<>> THEN d
  ELSE IF Head(cs) = <<"..">>
       THEN IF d = 0 THEN -1 ELSE Depth(Tail(cs), d - 1)
       ELSE Depth(Tail(cs), d + 1)

\* ZipFile::enclosed_name(..).is_some()
enclosed_name(p) == ~HasRoot(p) /\ Depth(Components(p), 0) >= 0

\* p without leading separators
RECURSIVE TrimLeft(_)
TrimLeft(p) ==
  IF p # <<>> /\ p[1] = "/" THEN TrimLeft(Tail(p)) ELSE p

\* filename.strip_prefix(filename.components().next()): the slice that
\* follows the first component
strip_prefix(p) ==
  LET q == TrimLeft(p)
  IN TrimLeft(SubSeq(q, NextSep(q, 1), Len(q)))

\* ------------------------------------------------------------------------
\* Templater::from_zip
\* ------------------------------------------------------------------------
\* ZipStep with the wrapper directory left in the name
ZipStep_KeepWrapper(t, e) ==
  IF ~e.is_file THEN [ok |-> TRUE, t |-> t]
  ELSE IF ~Utf8(e.data) THEN [ok |-> TRUE, t |-> t]
  ELSE IF ~enclosed_name(e.name) THEN [ok |-> FALSE, t |-> t]
  ELSE IF Components(e.name) = <<>> THEN [ok |-> FALSE, t |-> t]
  ELSE add_raw_template(t, e.name, e.data)

\* one iteration of the loop of from_zip on entry e: [ok, t]
ZipStep(t, e) ==
  IF ~e.is_file THEN [ok |-> TRUE, t |-> t]
  ELSE IF ~Utf8(e.data) THEN [ok |-> TRUE, t |-> t]
  ELSE IF ~enclosed_name(e.name) THEN [ok |-> FALSE, t |-> t]
  ELSE IF Components(e.name) = <<>> THEN [ok |-> FALSE, t |-> t]
  ELSE add_raw_template(t, strip_prefix(e.name), e.data)

RECURSIVE ZipLoop(_, _)
ZipLoop(t, zip) ==
  IF zip = <<>> THEN [ok |-> TRUE, t |-> t]
  ELSE LET r == ZipStep(t, Head(zip))
       IN IF r.ok THEN ZipLoop(r.t, Tail(zip)) ELSE [ok |-> FALSE, t |-> Templater]

from_zip(zip) == ZipLoop(Templater, zip)

\* ------------------------------------------------------------------------
\* Templater::from_git
\* ------------------------------------------------------------------------
\* the tree walk: every blob is added; a failed add aborts the walk
RECURSIVE GitWalk(_, _)
GitWalk(t, blobs) ==
  IF blobs = <<>> THEN [ok |-> TRUE, t |-> t]
  ELSE LET r == add_raw_template(t, Head(blobs).name, Head(blobs).data)
       IN IF r.ok THEN GitWalk(r.t, Tail(blobs)) ELSE [ok |-> FALSE, t |-> Templater]

from_git(blobs) == GitWalk(Templater, blobs)

\* ------------------------------------------------------------------------
\* Options (lib.rs)
\* ------------------------------------------------------------------------
Nil == "nil"

License == {"Other", "Cc0", "ApacheV2", "Mit", "GplV2", "GplV3", "NoLicense"}

\* impl ToString for License
to_string(l) ==
  CASE l = "ApacheV2" -> "Apache-2.0"
    [] l = "Mit" -> "MIT"
    [] l = "Cc0" -> "CC0-1.0"
    [] OTHER -> "Other"

ContinuousIntegration == {"Github", "None"}

\* ContinuousIntegration::paths: the prefix in the CI assets and the output
\* directory
paths(ci) ==
  IF ci = "Github" THEN [ci |-> <<"github">>, ci_path |-> <<".github">>]
  ELSE [ci |-> <<>>, ci_path |-> <<>>]

VersionControlSystem == {"Git", "None"}

RECURSIVE SeqsUpTo(_, _)
SeqsUpTo(S, n) ==
  IF n = 0 THEN {<<>>}
  ELSE LET shorter == SeqsUpTo(S, n - 1)
       IN shorter \cup {Append(q, x) : q \in shorter, x \in S}

ProjectOpts ==
  [name : {Nil, "game"},
   license : SeqsUpTo(License, MaxLicenses),
   continuous_integration : SeqsUpTo(ContinuousIntegration, MaxCI),
   template : {Nil, "simple"},
   vcs : {Nil} \cup VersionControlSystem]

Contains(q, x) == \E i \in 1..Len(q) : q[i] = x

\* the path init_project is called on
ProjectPath == <<"home", "/", "proj">>

\* Path::file_name: the last component unless it is "..", Nil if there is none
file_name(p) ==
  LET cs == Components(p)
  IN IF cs = <<>> \/ cs[Len(cs)] = <<"..">> \/ Len(cs[Len(cs)]) # 1 THEN Nil
     ELSE cs[Len(cs)][1]

\* the name put in the context (lib.rs 233-240), Nil if there is none
ResolveName(o, p) == IF o.name # Nil THEN o.name ELSE file_name(p)

\* ResolveLicense with the sentinel honoured only at the head of the list
ResolveLicense_SentinelFirst(o) ==
  IF o.license = <<>> THEN <<"ApacheV2", "Mit">>
  ELSE IF o.license[1] = "NoLicense" THEN <<>>
  ELSE o.license

\* lib.rs 242-248
ResolveLicense(o) ==
  IF o.license = <<>> THEN <<"ApacheV2", "Mit">>
  ELSE IF Contains(o.license, "NoLicense") THEN <<>>
  ELSE o.license

\* .map(to_string).collect().join(" OR ")
RECURSIVE JoinOr(_)
JoinOr(ls) ==
  IF ls = <<>> THEN ""
  ELSE IF Len(ls) = 1 THEN to_string(ls[1])
  ELSE to_string(ls[1]) \o " OR " \o JoinOr(Tail(ls))

\* ResolveCI with the sentinel honoured only when it is the whole list
ResolveCI_SentinelAlone(o) ==
  IF o.continuous_integration = <<>> THEN <<"Github">>
  ELSE IF o.continuous_integration = <<"None">> THEN <<>>
  ELSE o.continuous_integration

\* lib.rs 257-266
ResolveCI(o) ==
  IF o.continuous_integration = <<>> THEN <<"Github">>
  ELSE IF Contains(o.continuous_integration, "None") THEN <<>>
  ELSE o.continuous_integration

\* lib.rs 267-270
ResolveVcs(o) == IF o.vcs # Nil THEN o.vcs ELSE "Git"

\* ------------------------------------------------------------------------
\* Embedded assets
\* ------------------------------------------------------------------------
\* assets/licenses/: the license texts, by identifier
LicenseFles == {"Apache-2.0", "MIT", "CC0-1.0"}

\* assets/default_template/
DefaultTemplate ==
  << [name |-> <<"Cargo.toml", ".tera">>, data |-> "tpl"],
     [name |-> <<"src", "/", "main.rs">>, data |-> "txt"],
     [name |-> <<"assets", "/", "icon.png">>, data |-> "bin"] >>

\* assets/ci
CIFiles ==
  << [name |-> <<"github", "/", "workflows", "/", "ci.yml">>, data |-> "tpl"],
     [name |-> <<"github", "/", "dependabot.yml">>, data |-> "txt"] >>

\* default_template_tera: the assets that are not valid UTF-8 are skipped
RECURSIVE DefaultLoop(_, _)
DefaultLoop(t, files) ==
  IF files = <<>> THEN [ok |-> TRUE, t |-> t]
  ELSE IF ~Utf8(Head(files).data) THEN DefaultLoop(t, Tail(files))
  ELSE LET r == add_raw_template(t, Head(files).name, Head(files).data)
       IN IF r.ok THEN DefaultLoop(r.t, Tail(files))
          ELSE [ok |-> FALSE, t |-> Templater]

default_template_tera == DefaultLoop(Templater, DefaultTemplate)

\* continuous_integration_tera: a plain Tera, names kept as they are
RECURSIVE CILoop(_, _)
CILoop(tera, files) ==
  IF files = <<>> THEN [ok |-> TRUE, tera |-> tera]
  ELSE IF ~Utf8(Head(files).data) THEN CILoop(tera, Tail(files))
  ELSE IF TeraParses(Head(files).data)
       THEN CILoop(Put(tera, Head(files).name, Head(files).data), Tail(files))
       ELSE [ok |-> FALSE, tera |-> EmptyMap]

continuous_integration_tera == CILoop(EmptyMap, CIFiles)

\* ------------------------------------------------------------------------
\* The file system below the target directory
\* ------------------------------------------------------------------------
EmptyDir == [x \in {} |-> Raw("txt")]

\* d is a proper ancestor directory of f
IsAncestor(d, f) ==
  IF d = <<>> THEN f # <<>>
  ELSE /\ Len(f) >= Len(d) + 2
       /\ SubSeq(f, 1, Len(d)) = d
       /\ f[Len(d) + 1] = "/"

\* p is a directory: the target itself or a directory that holds a file
IsDir(fs, p) == p = <<>> \/ \E f \in DOMAIN fs : IsAncestor(p, f)

\* fs::create_dir_all(parent of p) fails: an ancestor of p is a file
AncestorIsFile(fs, p) == \E f \in DOMAIN fs : IsAncestor(f, p)

\* PathBuf::join
Join(a, b) ==
  IF a = <<>> THEN b ELSE IF b = <<>> THEN a ELSE a \o <<"/">> \o b

\* Path::starts_with: component-wise prefix
starts_with(p, base) ==
  LET cp == Components(p)
      cb == Components(base)
  IN Len(cb) <= Len(cp) /\ SubSeq(cp, 1, Len(cb)) = cb

\* Path::strip_prefix(base) for a p that starts with base
RECURSIVE StripN(_, _)
StripN(p, n) == IF n = 0 THEN p ELSE StripN(strip_prefix(p), n - 1)

strip_prefix_of(p, base) == StripN(p, Len(Components(base)))

RECURSIVE Perms(_)
Perms(S) ==
  IF S = {} THEN {<<>>}
  ELSE UNION {{<<x>> \o q : q \in Perms(S \ {x})} : x \in S}

\* an enumeration of Templater::get_template_names: the tera names in some
\* order, then the binaries keys in some order
Enumerations(t) ==
  {a \o b : a \in Perms(DOMAIN t.tera), b \in Perms(DOMAIN t.binaries)}

\* ------------------------------------------------------------------------
\* init_project: the loops of the stages.  st is [ok, dir, writes].
\* ------------------------------------------------------------------------
Wrote(st, stage, p, out) ==
  [ok |-> TRUE,
   dir |-> Put(st.dir, p, out),
   writes |-> st.writes \cup
                {[stage |-> stage, path |-> p, existed |-> p \in DOMAIN st.dir]}]

Failed(st) == [st EXCEPT !.ok = FALSE]

\* lib.rs 290-296: create_dir_all, File::create (which truncates a file
\* that exists), render_to
WriteTemplateFile(st, t, c, filename_str) ==
  IF AncestorIsFile(st.dir, filename_str) THEN Failed(st)
  ELSE IF IsDir(st.dir, filename_str) THEN Failed(st)
  ELSE LET r == render_to(t, filename_str, c)
       IN IF r.ok THEN Wrote(st, "template", filename_str, r.out)
          ELSE Failed(Wrote(st, "template", filename_str, Raw("")))

\* lib.rs 289-297
RECURSIVE TemplateLoop(_, _, _, _)
TemplateLoop(st, t, c, names) ==
  IF names = <<>> THEN st
  ELSE LET r == WriteTemplateFile(st, t, c, Head(names))
       IN IF r.ok THEN TemplateLoop(r, t, c, Tail(names)) ELSE r

LicensePath(id) == <<"LICENSE-" \o id>>

\* lib.rs 301-304: the asset lookup, then fs::write
WriteLicense(st, l) ==
  LET id == to_string(l)
  IN IF id \notin LicenseFles THEN Failed(st)
     ELSE IF IsDir(st.dir, LicensePath(id)) THEN Failed(st)
     ELSE Wrote(st, "license", LicensePath(id), Raw(id))

\* lib.rs 300-305
RECURSIVE LicenseLoop(_, _)
LicenseLoop(st, ls) ==
  IF ls = <<>> THEN st
  ELSE LET r == WriteLicense(st, Head(ls))
       IN IF r.ok THEN LicenseLoop(r, Tail(ls)) ELSE r

\* WriteCIFile opening the file with create instead of create_new
WriteCIFile_Overwrite(st, tera, c, ci, filename) ==
  IF ~starts_with(filename, paths(ci).ci) THEN st
  ELSE LET out_filename ==
             Join(paths(ci).ci_path, strip_prefix_of(filename, paths(ci).ci))
       IN IF AncestorIsFile(st.dir, out_filename) THEN Failed(st)
          ELSE IF IsDir(st.dir, out_filename) THEN st
               ELSE Wrote(st, "ci", out_filename, Render(tera[filename], c))

\* lib.rs 312-323: one CI asset for one provider; create_new opens the file
\* only if nothing is at its path
WriteCIFile(st, tera, c, ci, filename) ==
  IF ~starts_with(filename, paths(ci).ci) THEN st
  ELSE LET out_filename ==
             Join(paths(ci).ci_path, strip_prefix_of(filename, paths(ci).ci))
       IN IF AncestorIsFile(st.dir, out_filename) THEN Failed(st)
          ELSE IF out_filename \in DOMAIN st.dir \/ IsDir(st.dir, out_filename)
               THEN st
               ELSE Wrote(st, "ci", out_filename, Render(tera[filename], c))

\* lib.rs 311-324
RECURSIVE CIFileLoop(_, _, _, _, _)
CIFileLoop(st, tera, c, ci, names) ==
  IF names = <<>> THEN st
  ELSE LET r == WriteCIFile(st, tera, c, ci, Head(names))
       IN IF r.ok THEN CIFileLoop(r, tera, c, ci, Tail(names)) ELSE r

\* lib.rs 309-325
RECURSIVE CILoopProviders(_, _, _, _, _)
CILoopProviders(st, tera, c, cis, names) ==
  IF cis = <<>> THEN st
  ELSE LET r == CIFileLoop(st, tera, c, Head(cis), names)
       IN IF r.ok THEN CILoopProviders(r, tera, c, Tail(cis), names) ELSE r

GitDir == <<".git", "/", "HEAD">>

\* ------------------------------------------------------------------------
\* init_project: the stages
\* ------------------------------------------------------------------------
NoCall == [op |-> "none", name |-> <<>>, data |-> "txt", ok |-> FALSE]
NotLoaded == [from |-> "none", zip |-> <<>>, ok |-> FALSE]

NoOpts ==
  [name |-> Nil, license |-> <<>>, continuous_integration |-> <<>>,
   template |-> Nil, vcs |-> Nil]

NoCtx == [name |-> "", license |-> ""]

\* an absent repository or archive is <<>>, a present one is <<x>>
NoCache == [repo |-> <<>>, zip |-> <<>>]

\* installed repository templates: one that holds a CI file of its own,
\* and one that has a file named .github
RepoWithCI ==
  << [name |-> <<"Cargo.toml", ".tera">>, data |-> "tpl"],
     [name |-> <<".github", "/", "workflows", "/", "ci.yml">>, data |-> "bin"] >>

RepoWithGithubFile == << [name |-> <<".github">>, data |-> "txt"] >>

CacheRepos == {RepoWithCI, RepoWithGithubFile}

\* installed archive templates: the one of the tests, and one with the
\* entries a.tera and a
ZipSimple ==
  << [name |-> <<"w", "/", "Cargo.toml">>, is_file |-> TRUE, data |-> "txt"],
     [name |-> <<"w", "/", "src", "/", "main.rs", ".tera">>, is_file |-> TRUE,
      data |-> "tpl"],
     [name |-> <<"w", "/", "src", "/", "keep", ".tera", ".tera">>,
      is_file |-> TRUE, data |-> "txt"] >>

ZipTwice ==
  << [name |-> <<"w", "/", "a", ".tera">>, is_file |-> TRUE, data |-> "tpl"],
     [name |-> <<"w", "/", "a">>, is_file |-> TRUE, data |-> "txt"] >>

CacheZips == {ZipSimple, ZipTwice}

\* the states of the template cache directory: nothing, an archive, a
\* repository, or both under the same name
Caches ==
  [repo : {<<>>}, zip : {<<>>} \cup {<<z>> : z \in CacheZips}]
  \cup [repo : {<<r>> : r \in CacheRepos}, zip : {<<>>}]
  \cup {[repo |-> <<RepoWithCI>>, zip |-> <<ZipSimple>>]}

\* the contents of the target directory before the call
InitialDirs ==
  { EmptyDir, [x \in {<<"README.md">>} |-> Raw("txt")] }

Fail(stage) ==
  /\ pc' = "failed"
  /\ err' = stage

\* InitProject without the check that the directory is empty
InitProject_NoEmptyCheck(o) ==
  /\ pc = "idle"
  /\ calls = 0
  /\ loaded = NotLoaded
  /\ opts' = o
  /\ pc' = "resolve"
  /\ err' = ""
  /\ UNCHANGED <<storeVars, dir, ctx, license, continuous_integration, vcs,
                 cache, source, writes>>

\* the call, and the check that the directory is empty (lib.rs 225-229)
InitProject(o) ==
  /\ pc = "idle"
  /\ calls = 0
  /\ loaded = NotLoaded
  /\ opts' = o
  /\ IF DOMAIN dir # {}
     THEN Fail("precondition")
     ELSE pc' = "resolve" /\ err' = ""
  /\ UNCHANGED <<storeVars, dir, ctx, license, continuous_integration, vcs,
                 cache, source, writes>>

\* lib.rs 231-270
Resolve ==
  /\ pc = "resolve"
  /\ IF ResolveName(opts, ProjectPath) = Nil
     THEN /\ Fail("resolve")
          /\ UNCHANGED <<ctx, license, continuous_integration, vcs>>
     ELSE /\ license' = ResolveLicense(opts)
          /\ ctx' = [name |-> ResolveName(opts, ProjectPath),
                     license |-> JoinOr(ResolveLicense(opts))]
          /\ continuous_integration' = ResolveCI(opts)
          /\ vcs' = ResolveVcs(opts)
          /\ pc' = "select"
          /\ err' = ""
  /\ UNCHANGED <<storeVars, opts, dir, cache, source, writes>>

\* SelectSource probing the archive before the repository
SelectSource_ArchiveFirst(o, c) ==
  IF o.template = Nil THEN "Embedded"
  ELSE IF c.zip # <<>> THEN "Archive"
  ELSE IF c.repo # <<>> THEN "Repository"
  ELSE "none"

\* lib.rs 273-286: the loader the match picks; "none" when neither
\* Repository::open nor File::open succeeds
SelectSource(o, c) ==
  IF o.template = Nil THEN "Embedded"
  ELSE IF c.repo # <<>> THEN "Repository"
  ELSE IF c.zip # <<>> THEN "Archive"
  ELSE "none"

\* lib.rs 272-286: c is what the template cache directory holds
SelectTemplate(c) ==
  /\ pc = "select"
  /\ cache' = IF opts.template = Nil THEN NoCache ELSE c
  /\ LET src == SelectSource(opts, c)
         r == CASE src = "Embedded" -> default_template_tera
                [] src = "Repository" -> from_git(c.repo[1])
                [] src = "Archive" -> from_zip(c.zip[1])
                [] OTHER -> [ok |-> FALSE, t |-> Templater]
     IN /\ source' = src
        /\ template' = r.t
        /\ IF r.ok THEN pc' = "emit" /\ err' = "" ELSE Fail("select")
  /\ UNCHANGED <<calls, last, lastCall, loaded, opts, dir, ctx, license,
                 continuous_integration, vcs, writes>>

\* lib.rs 288-297: names is the order get_template_names yields
WriteTemplateFiles(names) ==
  /\ pc = "emit"
  /\ LET r == TemplateLoop([ok |-> TRUE, dir |-> dir, writes |-> writes],
                           template, ctx, names)
     IN /\ dir' = r.dir
        /\ writes' = r.writes
        /\ IF r.ok THEN pc' = "license" /\ err' = "" ELSE Fail("emit")
  /\ UNCHANGED <<storeVars, opts, ctx, license, continuous_integration, vcs,
                 cache, source>>

\* WriteLicenseFiles removing what was written when a license fails
WriteLicenseFiles_Cleanup ==
  /\ pc = "license"
  /\ LET r == LicenseLoop([ok |-> TRUE, dir |-> dir, writes |-> writes], license)
     IN /\ dir' = IF r.ok THEN r.dir ELSE EmptyDir
        /\ writes' = r.writes
        /\ IF r.ok THEN pc' = "ci" /\ err' = "" ELSE Fail("license")
  /\ UNCHANGED <<storeVars, opts, ctx, license, continuous_integration, vcs,
                 cache, source>>

\* lib.rs 299-305
WriteLicenseFiles ==
  /\ pc = "license"
  /\ LET r == LicenseLoop([ok |-> TRUE, dir |-> dir, writes |-> writes], license)
     IN /\ dir' = r.dir
        /\ writes' = r.writes
        /\ IF r.ok THEN pc' = "ci" /\ err' = "" ELSE Fail("license")
  /\ UNCHANGED <<storeVars, opts, ctx, license, continuous_integration, vcs,
                 cache, source>>

\* lib.rs 307-325: names is the order ci_template.get_template_names yields
WriteCIFiles(names) ==
  /\ pc = "ci"
  /\ IF ~continuous_integration_tera.ok
     THEN Fail("ci") /\ UNCHANGED <<dir, writes>>
     ELSE LET r == CILoopProviders([ok |-> TRUE, dir |-> dir, writes |-> writes],
                                   continuous_integration_tera.tera, ctx,
                                   continuous_integration, names)
          IN /\ dir' = r.dir
             /\ writes' = r.writes
             /\ IF r.ok THEN pc' = "vcs" /\ err' = "" ELSE Fail("ci")
  /\ UNCHANGED <<storeVars, opts, ctx, license, continuous_integration, vcs,
                 cache, source>>

\* lib.rs 327-335
InitVcs ==
  /\ pc = "vcs"
  /\ IF vcs = "Git"
     THEN LET r == Wrote([ok |-> TRUE, dir |-> dir, writes |-> writes],
                         "vcs", GitDir, Raw("txt"))
          IN dir' = r.dir /\ writes' = r.writes
     ELSE UNCHANGED <<dir, writes>>
  /\ pc' = "done"
  /\ err' = ""
  /\ UNCHANGED <<storeVars, opts, ctx, license, continuous_integration, vcs,
                 cache, source>>

\* ------------------------------------------------------------------------
\* A user of the Templater API
\* ------------------------------------------------------------------------
\* names handed to add_raw_template
AddNames ==
  { <<"a">>, <<"a", ".tera">>, <<"a", ".tera", ".tera">>, <<"b", ".tera">> }

\* entry names of zip archives
ZipNames ==
  { <<"w", "/", "a">>, <<"w", "/", "a", ".tera">>,
    <<"w", "/", "a", ".tera", ".tera">>, <<"w", "/", "..", "/", "a">>,
    <<"a">>, <<"/", "a">>, <<"..", "/", "a">> }

ZipEntries ==
  [name : ZipNames, is_file : {TRUE}, data : {"txt", "bad", "bin"}]
  \cup [name : {<<"w", "/">>}, is_file : {FALSE}, data : {"txt"}]

ZipArchives == SeqsUpTo(ZipEntries, MaxZipLen)

InitStore ==
  /\ template = Templater
  /\ calls = 0
  /\ last = [x \in {} |-> [kind |-> "Text", data |-> "txt"]]
  /\ lastCall = NoCall
  /\ loaded = NotLoaded
  /\ pc = "idle"
  /\ opts = NoOpts
  /\ dir = EmptyDir
  /\ ctx = NoCtx
  /\ license = <<>>
  /\ continuous_integration = <<>>
  /\ vcs = Nil
  /\ cache = NoCache
  /\ source = "none"
  /\ writes = {}
  /\ err = ""

\* a call of Templater::add_raw_template(name, content)
AddRawTemplate(name, content) ==
  /\ pc = "idle"
  /\ calls < MaxAdds
  /\ LET r == add_raw_template(template, name, content)
     IN /\ template' = r.t
        /\ last' = IF r.ok
                    THEN Put(last, StoredName(name),
                             [kind |-> StoredKind(name, content), data |-> content])
                    ELSE last
        /\ lastCall' = [op |-> "add", name |-> name, data |-> content, ok |-> r.ok]
  /\ calls' = calls + 1
  /\ loaded' = NotLoaded
  /\ UNCHANGED projVars

\* a call of Templater::from_zip(zip)
FromZip(zip) ==
  /\ pc = "idle"
  /\ calls = 0
  /\ loaded = NotLoaded
  /\ LET r == from_zip(zip)
     IN /\ template' = r.t
        /\ loaded' = [from |-> "zip", zip |-> zip, ok |-> r.ok]
  /\ last' = [x \in {} |-> [kind |-> "Text", data |-> "txt"]]
  /\ lastCall' = NoCall
  /\ UNCHANGED <<calls, projVars>>

NextStore ==
  \/ \E name \in AddNames, content \in Contents : AddRawTemplate(name, content)
  \/ calls = 0 /\ loaded = NotLoaded /\ \E zip \in ZipArchives : FromZip(zip)

SpecStore == InitStore /\ [][NextStore]_vars

\* ------------------------------------------------------------------------
\* A call of init_project
\* ------------------------------------------------------------------------
Init ==
  /\ template = Templater
  /\ calls = 0
  /\ last = [x \in {} |-> [kind |-> "Text", data |-> "txt"]]
  /\ lastCall = NoCall
  /\ loaded = NotLoaded
  /\ pc = "idle"
  /\ opts = NoOpts
  /\ dir \in InitialDirs
  /\ ctx = NoCtx
  /\ license = <<>>
  /\ continuous_integration = <<>>
  /\ vcs = Nil
  /\ cache = NoCache
  /\ source = "none"
  /\ writes = {}
  /\ err = ""

Next ==
  \/ pc = "idle" /\ \E o \in ProjectOpts : InitProject(o)
  \/ Resolve
  \/ pc = "select" /\ \E c \in Caches : SelectTemplate(c)
  \/ pc = "emit" /\ \E names \in Enumerations(template) : WriteTemplateFiles(names)
  \/ WriteLicenseFiles
  \/ pc = "ci" /\ \E names \in Perms(DOMAIN continuous_integration_tera.tera) :
                    WriteCIFiles(names)
  \/ InitVcs

Spec == Init /\ [][Next]_vars

\* ------------------------------------------------------------------------
\* Properties of the Templater (checked under SpecStore)
\* ------------------------------------------------------------------------
\* the context the store properties render against
TestCtx == [name |-> "proj", license |-> "MIT"]

EndsInTera(name) == Len(name) >= 1 /\ name[Len(name)] = ".tera"

EndsInDoubleTera(name) ==
  Len(name) >= 2 /\ name[Len(name)] = ".tera" /\ name[Len(name) - 1] = ".tera"

DropLast(name) == SubSeq(name, 1, Len(name) - 1)

\* the file entries of an archive
FileEntries(zip) == {zip[i] : i \in {j \in 1..Len(zip) : zip[j].is_file}}

\* no root and no parent-directory component
ValidRelative(n) ==
  /\ ~HasRoot(n)
  /\ \A i \in 1..Len(Components(n)) : Components(n)[i] # <<"..">>

\* C4: after add_raw_template(name, content) succeeds, a name X.tera.tera is
\* stored under X.tera with its bytes verbatim, and a name X.tera with text
\* content is stored under X as templated text.
C4_SuffixConvention ==
  (lastCall.op = "add" /\ lastCall.ok /\ EndsInTera(lastCall.name)) =>
    LET out == DropLast(lastCall.name)
    IN IF EndsInDoubleTera(lastCall.name)
       THEN /\ out \in DOMAIN template.binaries
            /\ template.binaries[out] = lastCall.data
       ELSE Utf8(lastCall.data) =>
              /\ out \in DOMAIN template.tera
              /\ template.tera[out] = lastCall.data

\* C5: after from_zip succeeds, the names of the store are the names of all
\* file entries of the archive, wrapper directory stripped and the suffix
\* rule of add_raw_template applied; no file entry is dropped.
C5_NoEntryDropped ==
  (loaded.from = "zip" /\ loaded.ok) =>
    get_template_names(template) =
      {StoredName(strip_prefix(e.name)) : e \in FileEntries(loaded.zip)}

\* C5 amended: after from_zip succeeds, the names of the store are the names
\* of the file entries whose content is valid UTF-8, wrapper directory
\* stripped and the suffix rule of add_raw_template applied; the file
\* entries that are not valid UTF-8 are left out.
C5_Utf8EntriesLoaded ==
  (loaded.from = "zip" /\ loaded.ok) =>
    get_template_names(template) =
      {StoredName(strip_prefix(e.name)) :
         e \in {f \in FileEntries(loaded.zip) : Utf8(f.data)}}

C5_Witness ==
  /\ loaded.from = "zip" /\ loaded.ok
  /\ \E e \in FileEntries(loaded.zip) : ~Utf8(e.data)
  /\ \E e \in FileEntries(loaded.zip) : Utf8(e.data) /\ Len(e.name) > 1
  /\ Cardinality(get_template_names(template)) = 1

\* C7: get_template_names yields every stored name exactly once, and
\* render_to(name) produces the content of the latest add stored under name.
C7_UniqueLastWriterWins ==
  /\ \A n \in get_template_names(template) : NameCount(template, n) = 1
  /\ \A n \in DOMAIN last :
       /\ render_to(template, n, TestCtx).ok
       /\ render_to(template, n, TestCtx).out =
            (IF last[n].kind = "Text" THEN Render(last[n].data, TestCtx)
             ELSE Raw(last[n].data))

\* C9: after from_zip succeeds, every name of the store is a valid relative
\* path without parent-directory component and without root.
C9_StoreNamesConfined ==
  (loaded.from = "zip" /\ loaded.ok) =>
    \A n \in get_template_names(template) : ValidRelative(n)

\* ------------------------------------------------------------------------
\* Properties of init_project (checked under Spec)
\* ------------------------------------------------------------------------
\* the paths a stage wrote
WrittenBy(stage) == {w.path : w \in {x \in writes : x.stage = stage}}

\* init_project got past option resolution
Resolved == pc \in {"select", "emit", "license", "ci", "vcs", "done"}
              \/ (pc = "failed" /\ err \in {"select", "emit", "license", "ci"})

\* init_project got past source selection
Selected == pc \in {"emit", "license", "ci", "vcs", "done"}
              \/ (pc = "failed" /\ err \in {"select", "emit", "license", "ci"})

\* C1: init_project on a directory that holds an entry fails at once and
\* leaves the directory as it was: nothing is written, then or later.
C1_NonEmptyFailsUntouched ==
  [][/\ (pc = "idle" /\ DOMAIN dir # {}) =>
          (pc' = "failed" /\ err' = "precondition" /\ dir' = dir /\ writes' = {})
     /\ (pc = "failed" /\ err = "precondition") => (dir' = dir /\ writes' = writes)
    ]_vars

C1_Witness ==
  pc = "failed" /\ err = "precondition" /\ <<"README.md">> \in DOMAIN dir
    /\ writes = {}

\* C2: with an empty --license list a successful run writes exactly
\* LICENSE-Apache-2.0 and LICENSE-MIT; with NoLicense anywhere in the list
\* the resolved set is empty and no license file is written; otherwise the
\* list is used as given.
C2_LicenseResolution ==
  /\ Resolved =>
       /\ opts.license = <<>> => license = <<"ApacheV2", "Mit">>
       /\ (\E i \in 1..Len(opts.license) : opts.license[i] = "NoLicense")
            => license = <<>>
       /\ (opts.license # <<>> /\
           \A i \in 1..Len(opts.license) : opts.license[i] # "NoLicense")
            => license = opts.license
  /\ pc = "done" =>
       /\ opts.license = <<>> =>
            /\ WrittenBy("license") = {<<"LICENSE-Apache-2.0">>, <<"LICENSE-MIT">>}
            /\ WrittenBy("license") \subseteq DOMAIN dir
       /\ (\E i \in 1..Len(opts.license) : opts.license[i] = "NoLicense")
            => WrittenBy("license") = {}

C2_Witness ==
  /\ pc = "done"
  /\ Len(opts.license) = 2 /\ opts.license[1] = "Mit" /\ opts.license[2] = "NoLicense"
  /\ WrittenBy("license") = {}
  /\ WrittenBy("template") # {}

\* the output paths of the CI assets for the Github provider
GithubOutputs ==
  { <<".github", "/", "workflows", "/", "ci.yml">>,
    <<".github", "/", "dependabot.yml">> }

UnderGithub(p) == Len(p) >= 3 /\ p[1] = ".github" /\ p[2] = "/"

\* C3: with an empty CI list the resolved set is exactly Github and the CI
\* stage writes under .github/ only; with the None sentinel anywhere in the
\* list the resolved set is empty and the CI stage writes no file.
C3_CIResolution ==
  /\ Resolved =>
       /\ opts.continuous_integration = <<>> => continuous_integration = <<"Github">>
       /\ (\E i \in 1..Len(opts.continuous_integration) :
             opts.continuous_integration[i] = "None")
            => continuous_integration = <<>>
  /\ pc \in {"vcs", "done"} =>
       /\ opts.continuous_integration = <<>> =>
            /\ \A p \in WrittenBy("ci") : UnderGithub(p)
            /\ GithubOutputs \subseteq DOMAIN dir
       /\ (\E i \in 1..Len(opts.continuous_integration) :
             opts.continuous_integration[i] = "None")
            => WrittenBy("ci") = {}

C3_Witness ==
  /\ pc = "done"
  /\ opts.continuous_integration = <<>>
  /\ WrittenBy("ci") = GithubOutputs

\* C6: a template file is never written over a file that exists: when the
\* output path exists, the stage fails.
C6_NoSilentOverwrite ==
  \A w \in writes :
    (w.stage = "template" /\ w.existed) => (pc = "failed" /\ err = "emit")

\* C8 as claimed: with a template name, the repository if one opens, else
\* the archive if it opens, else the embedded default; without a name the
\* embedded default.
C8_SourceSelectionFallsBack ==
  Selected =>
    /\ opts.template = Nil => source = "Embedded"
    /\ (opts.template # Nil /\ cache.repo # <<>>) => source = "Repository"
    /\ (opts.template # Nil /\ cache.repo = <<>> /\ cache.zip # <<>>)
         => source = "Archive"
    /\ (opts.template # Nil /\ cache.repo = <<>> /\ cache.zip = <<>>)
         => (source = "Embedded" /\ pc # "failed")

\* C8 amended: as claimed, but when neither a repository nor an archive
\* opens, init_project fails at source selection and writes nothing.
C8_SourceSelection ==
  Selected =>
    /\ opts.template = Nil =>
         (source = "Embedded" /\ template = default_template_tera.t)
    /\ (opts.template # Nil /\ cache.repo # <<>>) =>
         (source = "Repository" /\ template = from_git(cache.repo[1]).t)
    /\ (opts.template # Nil /\ cache.repo = <<>> /\ cache.zip # <<>>) =>
         (source = "Archive" /\ template = from_zip(cache.zip[1]).t)
    /\ (opts.template # Nil /\ cache.repo = <<>> /\ cache.zip = <<>>) =>
         (pc = "failed" /\ err = "select" /\ writes = {} /\ dir = EmptyDir)

C8_Witness ==
  /\ pc = "failed" /\ err = "select"
  /\ opts.template = "simple"
  /\ cache.repo = <<>> /\ cache.zip = <<>>

\* C10: the CI stage leaves every file that exists as it is, and a CI
\* output path that exists is no error: unless a file stands where a
\* directory of a CI output is needed, the stage succeeds and every output
\* of a resolved provider exists after it.
C10_CICreateOnly ==
  [][pc = "ci" =>
       /\ \A p \in DOMAIN dir : p \in DOMAIN dir' /\ dir'[p] = dir[p]
       /\ (\A f \in DOMAIN dir, p \in GithubOutputs : ~IsAncestor(f, p)) =>
            /\ pc' = "vcs"
            /\ continuous_integration # <<>> => GithubOutputs \subseteq DOMAIN dir'
    ]_vars

C10_Witness ==
  /\ pc = "done"
  /\ <<".github", "/", "workflows", "/", "ci.yml">> \in DOMAIN dir
  /\ dir[<<".github", "/", "workflows", "/", "ci.yml">>] = Raw("bin")
  /\ <<".github", "/", "dependabot.yml">> \in WrittenBy("ci")

\* the stage that follows a stage that succeeded
NextStage ==
  { <<"idle", "resolve">>, <<"resolve", "select">>, <<"select", "emit">>,
    <<"emit", "license">>, <<"license", "ci">>, <<"ci", "vcs">>,
    <<"vcs", "done">> }

\* the name a stage fails under
FailsAs ==
  { <<"idle", "precondition">>, <<"resolve", "resolve">>,
    <<"select", "select">>, <<"emit", "emit">>, <<"license", "license">>,
    <<"ci", "ci">> }

\* the name a stage writes under
WritesAs ==
  { <<"emit", "template">>, <<"license", "license">>, <<"ci", "ci">>,
    <<"vcs", "vcs">> }

C12_DistinctIdentifiers ==
  Resolved =>
    \A i, j \in 1..Len(license) :
      license[i] # license[j] => to_string(license[i]) # to_string(license[j])

====
